---------------------------- MODULE Spec2Model ----------------------------
(***************************************************************************)
(* A model of the jump-to-link plugin (src/main.ts): the hint-label        *)
(* allocator getLinkHintLetters, the two link locators, and the keystroke  *)
(* session that activateLinkHints arms on the document.                    *)
(*                                                                         *)
(* Strings of the program are modelled as sequences of one-character       *)
(* strings, so that s[0], s.length, s + t and toUpperCase() are computed   *)
(* rather than assumed: "BA" is <<"B", "A">> and '' is << >>.              *)
(***************************************************************************)
EXTENDS Integers, Sequences, FiniteSets, TLC

(***************************************************************************)
(* Bounds of the model.                                                    *)
(***************************************************************************)
\* getLinkHintLetters is applied to every numLinkHints in 0..MaxNumLinkHints
MaxNumLinkHints == 690

\* the views offered to an activation hold 0..MaxSmallLinks anchors or segments
\* (besides the sizes derived from the alphabet, see AnchorCounts)
MaxSmallLinks == 2

\* a rendered view holds up to MaxEmbeds embedded references
MaxEmbeds == 2

\* wrapper elements that modal rendering leaves in document.body are counted
\* up to MaxBodyEls; modal rendering is not offered beyond that
MaxBodyEls == 1

\* the views beyond the capacity of the allocator hold up to MaxExcessLinks
\* links more than it has labels
MaxExcessLinks == 2

\* getSourceLinkHints on its own is applied to every text of up to MaxSegments
\* segments
MaxSegments == 2

(***************************************************************************)
(* Small helpers.                                                          *)
(***************************************************************************)
Max(a, b) == IF a > b THEN a ELSE b

Min(a, b) == IF a < b THEN a ELSE b

\* Math.ceil(a / b) for integers a and b > 0 (\div rounds towards minus infinity)
Ceil(a, b) == -((-a) \div b)

Range(s) == {s[i] : i \in 1..Len(s)}

(***************************************************************************)
(* getLinkHintLetters                                                      *)
(***************************************************************************)
alphabet ==
    << "A", "B", "C", "D", "E", "F", "G", "H", "I", "J", "K", "L", "M",
       "N", "O", "P", "Q", "R", "S", "T", "U", "V", "W", "X", "Y", "Z" >>

\* the variant that divides by alphabet.length instead of alphabet.length - 1
prefixCountDivByLength(numLinkHints) ==
    Min(Max(Ceil(numLinkHints - Len(alphabet), Len(alphabet)), 0), Len(alphabet))

\* the variant that reserves one prefix letter more
prefixCountOneMore(numLinkHints) ==
    Min(Max(Ceil(numLinkHints - Len(alphabet), Len(alphabet) - 1) + 1, 0), Len(alphabet))

\* let prefixCount = Math.ceil(...); then clamped to 0 <= prefixCount <= alphabet.length
prefixCount(numLinkHints) ==
    Min(Max(Ceil(numLinkHints - Len(alphabet), Len(alphabet) - 1), 0), Len(alphabet))

\* the variant that takes the prefix letters from the end of the alphabet
prefixesFromEnd(numLinkHints) ==
    << << >> >> \o [i \in 1..prefixCount(numLinkHints) |-> << alphabet[Len(alphabet) + 1 - i] >>]

\* const prefixes = ['', ...Array.from(alphabet.slice(0, prefixCount))]
prefixes(numLinkHints) ==
    << << >> >> \o [i \in 1..prefixCount(numLinkHints) |-> << alphabet[i] >>]

\* the variant that does not keep the prefix letters out of the single-letter pool
pushLetterNoExclusion(prefs, prefix, letter, linkHintLetters) ==
    Append(linkHintLetters, prefix \o << letter >>)

\* the body of the inner loop once linkHintLetters.length < numLinkHints holds
pushLetter(prefs, prefix, letter, linkHintLetters) ==
    IF prefix = << >>
    THEN IF << letter >> \in Range(prefs)
         THEN linkHintLetters
         ELSE Append(linkHintLetters, << letter >>)
    ELSE Append(linkHintLetters, prefix \o << letter >>)

\* for (var j = 0; j < alphabet.length; j++) { if (length < numLinkHints) ... else break }
RECURSIVE lettersLoop(_, _, _, _, _)
lettersLoop(numLinkHints, prefs, prefix, j, linkHintLetters) ==
    IF j > Len(alphabet)
    THEN linkHintLetters
    ELSE IF Len(linkHintLetters) < numLinkHints
         THEN lettersLoop(numLinkHints, prefs, prefix, j + 1,
                          pushLetter(prefs, prefix, alphabet[j], linkHintLetters))
         ELSE linkHintLetters

\* for (var i = 0; i < prefixes.length; i++) { const prefix = prefixes[i]; ... }
RECURSIVE prefixesLoop(_, _, _, _)
prefixesLoop(numLinkHints, prefs, i, linkHintLetters) ==
    IF i > Len(prefs)
    THEN linkHintLetters
    ELSE prefixesLoop(numLinkHints, prefs, i + 1,
                      lettersLoop(numLinkHints, prefs, prefs[i], 1, linkHintLetters))

getLinkHintLetters(numLinkHints) ==
    prefixesLoop(numLinkHints, prefixes(numLinkHints), 1, << >>)


(***************************************************************************)
(* Strings, keys and the values of the program.                            *)
(***************************************************************************)
lowerCaseLetters ==
    << "a", "b", "c", "d", "e", "f", "g", "h", "i", "j", "k", "l", "m",
       "n", "o", "p", "q", "r", "s", "t", "u", "v", "w", "x", "y", "z" >>

\* String.prototype.toUpperCase on one character: a..z go to A..Z, the rest stays
toUpperCaseChar(c) ==
    IF \E i \in 1..Len(lowerCaseLetters) : lowerCaseLetters[i] = c
    THEN alphabet[CHOOSE i \in 1..Len(lowerCaseLetters) : lowerCaseLetters[i] = c]
    ELSE c

\* the variant that leaves the key as typed
toUpperCaseIdentity(str) == str

\* event.key.toUpperCase()
toUpperCase(str) == [i \in 1..Len(str) |-> toUpperCaseChar(str[i])]

\* the value undefined, as the letter of a hint past the end of linkHintLetters
undefined == << "undefined" >>

\* linkHintMap[x.letter]: a property key is the string of the value
propertyKey(letter) ==
    IF letter = undefined
    THEN << "u", "n", "d", "e", "f", "i", "n", "e", "d" >>
    ELSE letter

\* prefixInfo: { prefix, shiftKey } | undefined, as a sequence of at most one record
noPrefixInfo == << >>

\* the values of KeyboardEvent.key offered to the keydown listener
ShiftKey == << "S", "h", "i", "f", "t" >>

Keys ==
    { << "A" >>, << "B" >>, << "Z" >>, << "a" >>, << "b" >>, << "1" >>,
      << "E", "n", "t", "e", "r" >>, ShiftKey }

KeyboardEvents == [key : Keys, shiftKey : BOOLEAN]

LinkHintModes == {"popovers", "modal"}

(***************************************************************************)
(* The views an activation can find.                                       *)
(***************************************************************************)
\* numbers of anchors: the small ones, and those that with one embed fall on
\* both sides of alphabet.length (no prefix letter, one prefix letter) and of
\* the step from one prefix letter to two
AnchorCounts == (0..MaxSmallLinks) \cup {Len(alphabet), 2 * Len(alphabet) - 1}

\* an <a> element of the rendered view: rows of three anchors, the rows in
\* reverse document order, every second anchor inside one positioned ancestor
anchorEl(i, n) ==
    [ internalLink  |-> (i % 2 = 1),
      dataHref      |-> << "note", i >>,
      href          |-> << "http", i >>,
      offsetTop     |-> ((n - i) \div 3) * 20,
      offsetLeft    |-> (i % 3) * 50,
      offsetParents |-> IF i % 2 = 0
                        THEN << [offsetTop |-> 5, offsetLeft |-> 10] >>
                        ELSE << >> ]

\* an .internal-embed element: the second one has no .markdown-embed-link
\* child, the third one no src attribute
embedEl(k) ==
    [ src           |-> IF k = 3 THEN << >> ELSE << << "embed", k >> >>,
      linkEl        |-> IF k = 2
                        THEN << >>
                        ELSE << [offsetTop |-> 2, offsetLeft |-> 3] >>,
      offsetParents |-> << [offsetTop |-> 1000 * k, offsetLeft |-> 0] >> ]

previewViewEl(n, e) ==
    [ anchorEls |-> [i \in 1..n |-> anchorEl(i, n)],
      embedEls  |-> [k \in 1..e |-> embedEl(k)] ]

\* the characters that separate the parts of a text
space == " "

newline == "\n"

tab == "\t"

\* the decimal numeral of i, as a string
digits == << "0", "1", "2", "3", "4", "5", "6", "7", "8", "9" >>

RECURSIVE numeral(_)
numeral(i) ==
    IF i < 10
    THEN << digits[i + 1] >>
    ELSE numeral(i \div 10) \o << digits[(i % 10) + 1] >>

\* the text of the editor is written as segments: a plain word, [[name]],
\* [[name|label]], [label](name) or a bare URL name, each followed by sep
segmentKinds == << "wiki", "markdown", "url", "wikiAlias", "word" >>

httpScheme == << "h", "t", "t", "p", ":", "/", "/" >>

\* segment i of a text, of a given kind and followed by sep: its name is made
\* of i, so that the links of one text have different targets
segment(i, kind, sep) ==
    [ kind  |-> kind,
      name  |-> IF kind = "url"
                THEN httpScheme \o << "u" >> \o numeral(i)
                ELSE << "n" >> \o numeral(i),
      label |-> << "t" >>,
      sep   |-> sep ]

\* the characters of one segment
segmentText(seg) ==
    ( CASE seg.kind = "wiki"      -> << "[", "[" >> \o seg.name \o << "]", "]" >>
        [] seg.kind = "wikiAlias" ->
               << "[", "[" >> \o seg.name \o << "|" >> \o seg.label \o << "]", "]" >>
        [] seg.kind = "markdown"  ->
               << "[" >> \o seg.label \o << "]", "(" >> \o seg.name \o << ")" >>
        [] OTHER                  -> seg.name ) \o seg.sep

\* strs = cmEditor.getValue(): the characters of segments[lo..hi]
RECURSIVE sourceText(_, _, _)
sourceText(segments, lo, hi) ==
    IF lo > hi
    THEN << >>
    ELSE IF lo = hi
         THEN segmentText(segments[lo])
         ELSE LET mid == (lo + hi) \div 2
              IN  sourceText(segments, lo, mid) \o sourceText(segments, mid + 1, hi)

\* a text of m segments, the kinds in turn, three segments to a line
segmentsOf(m) ==
    [i \in 1..m |->
        segment(i, segmentKinds[((i - 1) % Len(segmentKinds)) + 1],
                IF i % 3 = 0 THEN << newline >> ELSE << space >>)]

SegmentCounts == (0..MaxSmallLinks) \cup {2 * Len(alphabet)}

\* the current view, named by its mode and what it shows: the numbers of
\* anchors and embeds of the rendered view, the number of segments of the
\* editor's text
Views ==
    [mode : {"preview"}, anchors : AnchorCounts, embeds : 0..MaxEmbeds]
        \cup [mode : {"source"}, segments : SegmentCounts]
        \cup [mode : {"other"}]

\* the views with more links than the allocator has labels: rendered views
\* of 26 * 26 + 1 anchors and more
OverCapacityViews ==
    [ mode    : {"preview"},
      anchors : (Len(alphabet) * Len(alphabet) + 1)
                    ..(Len(alphabet) * Len(alphabet) + MaxExcessLinks),
      embeds  : {0} ]

\* the rendered view with as many anchors as the allocator has labels
CapacityView ==
    [mode |-> "preview", anchors |-> Len(alphabet) * Len(alphabet), embeds |-> 0]

(***************************************************************************)
(* The state of the program and of the document it acts on.                *)
(***************************************************************************)
VARIABLES
    isLinkHintActive,   \* this.isLinkHintActive
    prefixInfo,         \* this.prefixInfo
    settingsMode,       \* this.settings.mode
    keydownListeners,   \* the document's keydown listeners, in registration order;
                        \* a listener is the closure handleKeyDown with its linkHintMap
    popoverEls,         \* number of .jl.popover elements in the document
    jlModalEls,         \* number of #jl-modal elements in the document
    modalWrapperEls,    \* number of the div elements displayModal appended to document.body
    lastOp,             \* the handler that ran last
    lastEvent,          \* the keyboard event of the last step with its flags, if any
    handleHotkeyCalls,  \* the calls of handleHotkey made by the last step
    hostCalls,          \* the calls of openLinkText and openExternal made by the last step
    lastNumLinkHints,   \* the argument of the last call of getLinkHintLetters
    lastLinkHintLetters, \* the result of the last call of getLinkHintLetters, if any
    currentView,        \* the view the last activation read from the workspace, if any
    lastLinkHints       \* the result of the last call of a locator, if any

vars ==
    << isLinkHintActive, prefixInfo, settingsMode, keydownListeners, popoverEls,
       jlModalEls, modalWrapperEls, lastOp, lastEvent, handleHotkeyCalls,
       hostCalls, lastNumLinkHints, lastLinkHintLetters, currentView, lastLinkHints >>

(***************************************************************************)
(* getPreviewLinkHints                                                     *)
(***************************************************************************)
\* while (offsetParent) { ... top += offsetParent.offsetTop; ... }: the sum of
\* one offset over the positioned ancestors below previewViewEl
RECURSIVE sumOffsets(_, _, _)
sumOffsets(offsetParents, field, i) ==
    IF i > Len(offsetParents)
    THEN 0
    ELSE offsetParents[i][field] + sumOffsets(offsetParents, field, i + 1)

\* anchorEls.forEach(...): one hint per anchor, its letter still ''
anchorLinkHint(a) ==
    [ letter   |-> << >>,
      linkText |-> IF a.internalLink THEN a.dataHref ELSE a.href,
      type     |-> IF a.internalLink THEN "internal" ELSE "external",
      top      |-> a.offsetTop + sumOffsets(a.offsetParents, "offsetTop", 1),
      left     |-> a.offsetLeft + sumOffsets(a.offsetParents, "offsetLeft", 1) ]

\* embedEls.forEach(...): if (linkText && linkEl) is the guard of the push
embedHasLinkHint(e) == e.src # << >> /\ e.linkEl # << >>

embedLinkHint(e) ==
    [ letter   |-> << >>,
      linkText |-> e.src[1],
      type     |-> "internal",
      top      |-> e.linkEl[1].offsetTop + sumOffsets(e.offsetParents, "offsetTop", 1),
      left     |-> e.linkEl[1].offsetLeft + sumOffsets(e.offsetParents, "offsetLeft", 1) ]

\* the variant that compares left before top
comparePositionByLeft(a, b) ==
    IF a.left > b.left
    THEN 1
    ELSE IF a.left = b.left
         THEN IF a.top > b.top
              THEN 1
              ELSE IF a.top = b.top THEN 0 ELSE -1
         ELSE -1

\* the comparator of linkHints.sort: 1, 0 or -1
comparePosition(a, b) ==
    IF a.top > b.top
    THEN 1
    ELSE IF a.top = b.top
         THEN IF a.left > b.left
              THEN 1
              ELSE IF a.left = b.left THEN 0 ELSE -1
         ELSE -1

positionBefore(a, b) == comparePosition(a, b) < 0

\* the variant that starts over with the first label past the end
letterAtWrapping(letters, i) ==
    IF letters = << >> THEN undefined ELSE letters[((i - 1) % Len(letters)) + 1]

\* linkHintLetters[i] for the array index i - 1: undefined past the end
letterAt(letters, i) == IF i <= Len(letters) THEN letters[i] ELSE undefined

\* sortedLinkHints.forEach((linkHint, i) => linkHint.letter = linkHintLetters[i])
withLetters(sortedLinkHints, letters) ==
    [i \in 1..Len(sortedLinkHints) |->
        [sortedLinkHints[i] EXCEPT !.letter = letterAt(letters, i)]]

getPreviewLinkHints(el) ==
    LET linkHints ==
            [i \in 1..Len(el.anchorEls) |-> anchorLinkHint(el.anchorEls[i])]
                \o [i \in 1..Len(SelectSeq(el.embedEls, embedHasLinkHint)) |->
                        embedLinkHint(SelectSeq(el.embedEls, embedHasLinkHint)[i])]
        sortedLinkHints == SortSeq(linkHints, positionBefore)
    IN  withLetters(sortedLinkHints, getLinkHintLetters(Len(sortedLinkHints)))

(***************************************************************************)
(* getSourceLinkHints                                                      *)
(***************************************************************************)
\* strs[p - 1] === c, for the character at position p (the index p - 1)
charAt(strs, p, c) == p >= 1 /\ p <= Len(strs) /\ strs[p] = c

\* . of a regular expression: any character but a line terminator
dot(strs, p) == p >= 1 /\ p <= Len(strs) /\ strs[p] # newline

\* the least element of a non-empty set of positions
Least(positions) == CHOOSE x \in positions : \A y \in positions : x <= y

\* the first position from p on that . does not match
lineEnd(strs, p) ==
    CHOOSE q \in p..(Len(strs) + 1) : ~dot(strs, q) /\ \A r \in p..(q - 1) : dot(strs, r)

\* .+? from p: the positions it can stop before, the nearest tried first
lazyEnds(strs, p) == (p + 1)..lineEnd(strs, p)

\* \]\] at q
closesInternal(strs, q) == charAt(strs, q, "]") /\ charAt(strs, q + 1, "]")

\* (\|.+?)?\]\] from q: the position after the match, 0 if there is none; the
\* optional group is tried before its omission
restInternal(strs, q) ==
    LET aliasEnds ==
            IF charAt(strs, q, "|")
            THEN {r \in lazyEnds(strs, q + 1) : closesInternal(strs, r)}
            ELSE {}
    IN  IF aliasEnds # {}
        THEN Least(aliasEnds) + 2
        ELSE IF closesInternal(strs, q) THEN q + 2 ELSE 0

\* /\[\[(.+?)(\|.+?)?\]\]/ matched at position s: index, group 1 and lastIndex
regExInternalAt(strs, s) ==
    IF charAt(strs, s, "[") /\ charAt(strs, s + 1, "[")
    THEN LET ends == {q \in lazyEnds(strs, s + 2) : restInternal(strs, q) # 0}
         IN  IF ends = {}
             THEN << >>
             ELSE << [ index     |-> s - 1,
                       linkText  |-> SubSeq(strs, s + 2, Least(ends) - 1),
                       lastIndex |-> restInternal(strs, Least(ends)) ] >>
    ELSE << >>

\* (.+?)\) from p: the positions of the closing parenthesis
targetEnds(strs, p) == {r \in lazyEnds(strs, p) : charAt(strs, r, ")")}

\* /\[.+?\]\((.+?)\)/ matched at position s
regExExternalAt(strs, s) ==
    IF charAt(strs, s, "[")
    THEN LET ends == {q \in lazyEnds(strs, s + 1) :
                         /\ charAt(strs, q, "]")
                         /\ charAt(strs, q + 1, "(")
                         /\ targetEnds(strs, q + 2) # {}}
         IN  IF ends = {}
             THEN << >>
             ELSE LET p == Least(ends) + 2
                      r == Least(targetEnds(strs, p))
                  IN  << [ index     |-> s - 1,
                           linkText  |-> SubSeq(strs, p, r - 1),
                           lastIndex |-> r + 1 ] >>
    ELSE << >>

\* the characters of word stand at position p
startsWith(strs, p, word) ==
    p + Len(word) - 1 <= Len(strs) /\ SubSeq(strs, p, p + Len(word) - 1) = word

\* https?:\/\/ from s: the position after it, 0 if it does not match
afterScheme(strs, s) ==
    IF startsWith(strs, s, << "h", "t", "t", "p", "s", ":", "/", "/" >>)
    THEN s + 8
    ELSE IF startsWith(strs, s, << "h", "t", "t", "p", ":", "/", "/" >>)
         THEN s + 7
         ELSE 0

\* [^ \n] at p
notBlank(strs, p) == p >= 1 /\ p <= Len(strs) /\ strs[p] \notin {space, newline}

\* [^ \n]+ from p: the position after the longest run
blankFrom(strs, p) ==
    CHOOSE q \in p..(Len(strs) + 1) :
        ~notBlank(strs, q) /\ \A r \in p..(q - 1) : notBlank(strs, r)

\* the variant without the lookbehind
lookbehindAnywhere(strs, s) == TRUE

\* (?<= |\n|^) at s: a space or a newline stands before s, or the text starts at s
lookbehind(strs, s) == s = 1 \/ charAt(strs, s - 1, space) \/ charAt(strs, s - 1, newline)

\* /(?<= |\n|^)(https?:\/\/[^ \n]+)/ matched at position s
regExUrlAt(strs, s) ==
    IF /\ lookbehind(strs, s)
       /\ afterScheme(strs, s) # 0
       /\ notBlank(strs, afterScheme(strs, s))
    THEN << [ index     |-> s - 1,
              linkText  |-> SubSeq(strs, s, blankFrom(strs, s) - 1),
              lastIndex |-> blankFrom(strs, s) ] >>
    ELSE << >>

regExAt(regEx, strs, s) ==
    CASE regEx = "regExInternal" -> regExInternalAt(strs, s)
      [] regEx = "regExExternal" -> regExExternalAt(strs, s)
      [] regEx = "regExUrl"      -> regExUrlAt(strs, s)

\* every position of strs at which regEx matches
matchStarts(regEx, strs) == {s \in 1..Len(strs) : regExAt(regEx, strs, s) # << >>}

\* while (regExResult = regEx.exec(strs)) linksWithIndex.push(...): the
\* entries pushed for the matches from lastIndex on, starts being the
\* positions at which regEx matches
RECURSIVE regExMatches(_, _, _, _, _)
regExMatches(regEx, strs, starts, lastIndex, type) ==
    LET ahead == {s \in starts : s >= lastIndex}
    IN  IF ahead = {}
        THEN << >>
        ELSE LET regExResult == regExAt(regEx, strs, Least(ahead))[1]
             IN  << [ index    |-> regExResult.index,
                      type     |-> type,
                      linkText |-> regExResult.linkText ] >>
                     \o regExMatches(regEx, strs, ahead, regExResult.lastIndex, type)

\* the entries one of the three loops pushes
regExLoop(regEx, strs, type) ==
    regExMatches(regEx, strs, matchStarts(regEx, strs), 1, type)

indexBefore(x, y) == x.index - y.index < 0

\* linksWithIndex.sort(...).forEach((linkHint, i) =>
\*     linksWithLetter.push({ letter: linkHintLetters[i], ...linkHint }))
linksWithLetter(sorted, letters) ==
    [i \in 1..Len(sorted) |->
        [ letter   |-> letterAt(letters, i),
          index    |-> sorted[i].index,
          type     |-> sorted[i].type,
          linkText |-> sorted[i].linkText ]]

getSourceLinkHints(strs) ==
    LET linksWithIndex ==
            regExLoop("regExInternal", strs, "internal")
                \o regExLoop("regExExternal", strs, "external")
                \o regExLoop("regExUrl", strs, "external")
    IN  linksWithLetter(SortSeq(linksWithIndex, indexBefore),
                        getLinkHintLetters(Len(linksWithIndex)))

(***************************************************************************)
(* activateLinkHints: linkHintMap, handleHotkey and handleKeyDown.         *)
(*                                                                         *)
(* The handlers are written over a record st of the fields they read and   *)
(* write: isLinkHintActive, prefixInfo, keydownListeners, popoverEls,      *)
(* jlModalEls, event (the keyboard event with its flags),                  *)
(* handleHotkeyCalls and hostCalls.                                        *)
(***************************************************************************)
\* linkHints.forEach(x => linkHintMap[x.letter] = x) over linkHints[lo..hi]:
\* a later hint replaces an earlier one stored under the same key
RECURSIVE linkHintMapOf(_, _, _)
linkHintMapOf(linkHints, lo, hi) ==
    IF lo > hi
    THEN << >>
    ELSE IF lo = hi
         THEN propertyKey(linkHints[lo].letter) :> linkHints[lo]
         ELSE LET mid == (lo + hi) \div 2
              IN  linkHintMapOf(linkHints, mid + 1, hi) @@ linkHintMapOf(linkHints, lo, mid)

\* linkHintMap[key]: the stored hint, or nothing (undefined)
lookup(linkHintMap, key) ==
    IF key \in DOMAIN linkHintMap THEN << linkHintMap[key] >> ELSE << >>

\* handleHotkey(newLeaf, link): the host call it makes
hostCallOf(newLeaf, link) ==
    IF link.type = "internal"
    THEN << [fn |-> "openLinkText", linkText |-> link.linkText, newLeaf |-> newLeaf] >>
    ELSE IF link.type = "external"
         THEN << [fn |-> "openExternal", linkText |-> link.linkText] >>
         ELSE << >>

handleHotkey(newLeaf, link, st) ==
    [st EXCEPT !.handleHotkeyCalls = Append(@, [newLeaf |-> newLeaf, link |-> link]),
               !.hostCalls = @ \o hostCallOf(newLeaf, link)]

\* the variant without the early return on Shift
isShiftNever(event) == FALSE

\* if (event.key === 'Shift') return
isShift(event) == event.key = ShiftKey

\* the variant that finds no prefix
prefixesOfNone(linkHintMap) == {}

\* new Set(Object.keys(linkHintMap).filter(x => x.length > 1).map(x => x[0]))
prefixesOf(linkHintMap) == {x[1] : x \in {k \in DOMAIN linkHintMap : Len(k) > 1}}

\* the variant that looks the second key up without the recorded prefix
lookupKeyIgnoringPrefix(info, eventKey) == eventKey

\* the key looked up in linkHintMap: this.prefixInfo.prefix + eventKey, or eventKey
lookupKey(info, eventKey) ==
    IF info # noPrefixInfo THEN info[1].prefix \o eventKey ELSE eventKey

\* if (!linkHint && prefixes && prefixes.has(eventKey)), in the else branch
startsPrefix(info, linkHint, linkHintMap, eventKey) ==
    /\ info = noPrefixInfo
    /\ linkHint = << >>
    /\ \E c \in prefixesOf(linkHintMap) : eventKey = << c >>

\* the variant that lets the event through untouched
suppressNothing(event) == event

\* event.preventDefault(); event.stopPropagation(); event.stopImmediatePropagation()
suppress(event) ==
    [event EXCEPT !.defaultPrevented = TRUE,
                  !.propagationStopped = TRUE,
                  !.immediatePropagationStopped = TRUE]

\* the variant that records no Shift state with the prefix
recordPrefixWithoutShift(eventKey, event) ==
    << [prefix |-> eventKey, shiftKey |-> FALSE] >>

\* this.prefixInfo = { prefix: eventKey, shiftKey: event.shiftKey }
recordPrefix(eventKey, event) ==
    << [prefix |-> eventKey, shiftKey |-> event.shiftKey] >>

\* the variant that takes the recorded Shift state whenever a prefix is pending
newLeafPrefixOnly(info, event) ==
    IF info # noPrefixInfo THEN info[1].shiftKey ELSE event.shiftKey

\* const newLeaf = this.prefixInfo?.shiftKey || event.shiftKey
newLeafOf(info, event) ==
    IF info # noPrefixInfo /\ info[1].shiftKey THEN TRUE ELSE event.shiftKey

\* document.removeEventListener('keydown', handleKeyDown): the listener leaves the list
RECURSIVE removeEventListener(_, _)
removeEventListener(listeners, self) ==
    IF listeners = << >>
    THEN << >>
    ELSE IF Head(listeners) = self
         THEN Tail(listeners)
         ELSE << Head(listeners) >> \o removeEventListener(Tail(listeners), self)

\* the variant that leaves the prefix state behind
teardownKeepingPrefix(self, st) ==
    [st EXCEPT !.keydownListeners = removeEventListener(@, self),
               !.popoverEls = 0,
               !.jlModalEls = 0,
               !.isLinkHintActive = FALSE]

\* the variant that leaves the listener registered
teardownKeepingListener(self, st) ==
    [st EXCEPT !.popoverEls = 0,
               !.jlModalEls = 0,
               !.prefixInfo = noPrefixInfo,
               !.isLinkHintActive = FALSE]

\* the last five statements of handleKeyDown
teardown(self, st) ==
    [st EXCEPT !.keydownListeners = removeEventListener(@, self),
               !.popoverEls = 0,
               !.jlModalEls = 0,
               !.prefixInfo = noPrefixInfo,
               !.isLinkHintActive = FALSE]

\* the variant that calls the dispatcher a second time
dispatchTwice(newLeaf, linkHint, st) ==
    IF linkHint # << >>
    THEN handleHotkey(newLeaf, linkHint[1], handleHotkey(newLeaf, linkHint[1], st))
    ELSE st

\* linkHint && handleHotkey(newLeaf, linkHint)
dispatch(newLeaf, linkHint, st) ==
    IF linkHint # << >> THEN handleHotkey(newLeaf, linkHint[1], st) ELSE st

\* the listener self (with its linkHintMap) receiving st.event
handleKeyDown(self, st) ==
    IF isShift(st.event)
    THEN st
    ELSE LET eventKey == toUpperCase(st.event.key)
             linkHint == lookup(self.linkHintMap, lookupKey(st.prefixInfo, eventKey))
         IN  IF startsPrefix(st.prefixInfo, linkHint, self.linkHintMap, eventKey)
             THEN [st EXCEPT !.prefixInfo = recordPrefix(eventKey, st.event),
                             !.event = suppress(@)]
             ELSE LET newLeaf == newLeafOf(st.prefixInfo, st.event)
                      stopped == [st EXCEPT !.event = suppress(@)]
                  IN  teardown(self, dispatch(newLeaf, linkHint, stopped))

\* the document handing the event to its keydown listeners: those registered
\* when the event arrived, in order, skipping what was removed meanwhile, until
\* one stops immediate propagation
RECURSIVE dispatchEvent(_, _, _)
dispatchEvent(listeners, i, st) ==
    IF i > Len(listeners) \/ st.event.immediatePropagationStopped
    THEN st
    ELSE IF listeners[i] \in Range(st.keydownListeners)
         THEN dispatchEvent(listeners, i + 1, handleKeyDown(listeners[i], st))
         ELSE dispatchEvent(listeners, i + 1, st)

(***************************************************************************)
(* The operations.                                                         *)
(***************************************************************************)
\* the fields the handlers work on, read from the variables
current(event) ==
    [ isLinkHintActive  |-> isLinkHintActive,
      prefixInfo        |-> prefixInfo,
      keydownListeners  |-> keydownListeners,
      popoverEls        |-> popoverEls,
      jlModalEls        |-> jlModalEls,
      event             |-> event,
      handleHotkeyCalls |-> << >>,
      hostCalls         |-> << >> ]

Init ==
    /\ isLinkHintActive = FALSE
    /\ prefixInfo = noPrefixInfo
    /\ settingsMode \in LinkHintModes
    /\ keydownListeners = << >>
    /\ popoverEls = 0
    /\ jlModalEls = 0
    /\ modalWrapperEls = 0
    /\ lastOp = "onload"
    /\ lastEvent = << >>
    /\ handleHotkeyCalls = << >>
    /\ hostCalls = << >>
    /\ lastNumLinkHints = 0
    /\ lastLinkHintLetters = << >>
    /\ currentView = << >>
    /\ lastLinkHints = << >>

\* the variant without the guard on this.isLinkHintActive
sessionActiveNever == FALSE

\* if (this.isLinkHintActive) return
sessionActive == isLinkHintActive

\* the segments of the text that a source view shows: a view names them by
\* their number, or lists them as its parts
segmentsIn(view) ==
    IF "segments" \in DOMAIN view THEN segmentsOf(view.segments) ELSE view.parts

\* getPreviewLinkHints or getSourceLinkHints, by the mode of the current view
linkHintsOf(view) ==
    IF view.mode = "preview"
    THEN getPreviewLinkHints(previewViewEl(view.anchors, view.embeds))
    ELSE getSourceLinkHints(sourceText(segmentsIn(view), 1, Len(segmentsIn(view))))

\* a function written out as a table of its values, each computed once
tabulated(f) == f @@ << >>

\* the views that have a locator
LocatedViews ==
    {v \in Views \cup OverCapacityViews \cup {CapacityView} : v.mode # "other"}

\* const linkHints = this.get...LinkHints(...), for each view that has a locator
linkHintsIn == tabulated([view \in LocatedViews |-> linkHintsOf(view)])

\* the linkHintMap that activateLinkHints builds from the hints of a view
linkHintMapIn ==
    tabulated([view \in LocatedViews |->
                  linkHintMapOf(linkHintsIn[view], 1, Len(linkHintsIn[view]))])

\* this.getLinkHintLetters(n), for each number of hints
linkHintLettersFor == tabulated([n \in 0..MaxNumLinkHints |-> getLinkHintLetters(n)])

\* the variant that arms a session whatever the locator found
hasLinkHintsAlways(found) == TRUE

\* if (linkHints.length)
hasLinkHints(found) == Len(found) > 0

\* the command callback, for the view that is current when it runs
handleJumpToLink(view) ==
    /\ lastOp' = "handleJumpToLink"
    /\ lastEvent' = << >>
    /\ handleHotkeyCalls' = << >>
    /\ hostCalls' = << >>
    /\ UNCHANGED << prefixInfo, settingsMode >>
    /\ currentView' = IF sessionActive THEN currentView ELSE << view >>
    /\ IF sessionActive \/ view.mode \notin {"preview", "source"}
       THEN UNCHANGED << isLinkHintActive, keydownListeners, popoverEls, jlModalEls,
                         modalWrapperEls, lastNumLinkHints, lastLinkHintLetters, lastLinkHints >>
       ELSE LET found == linkHintsIn[view]
            IN  /\ lastLinkHints' = << found >>
                /\ lastNumLinkHints' = Len(found)
                /\ lastLinkHintLetters' = << linkHintLettersFor[Len(found)] >>
                /\ IF hasLinkHints(found)
                   THEN \* displayModal or display...Popovers, then activateLinkHints
                        /\ settingsMode = "modal" => modalWrapperEls < MaxBodyEls
                        /\ modalWrapperEls' =
                               IF settingsMode = "modal"
                               THEN modalWrapperEls + 1
                               ELSE modalWrapperEls
                        /\ jlModalEls' =
                               IF settingsMode = "modal" THEN jlModalEls + 1 ELSE jlModalEls
                        /\ popoverEls' =
                               IF settingsMode = "popovers"
                               THEN popoverEls + Len(found)
                               ELSE popoverEls
                        /\ keydownListeners' =
                               Append(keydownListeners, [linkHintMap |-> linkHintMapIn[view]])
                        /\ isLinkHintActive' = TRUE
                   ELSE UNCHANGED << isLinkHintActive, keydownListeners, popoverEls,
                                     jlModalEls, modalWrapperEls >>

\* a keydown event arriving at the document
keydown(e) ==
    LET event == [ key |-> e.key, shiftKey |-> e.shiftKey,
                   defaultPrevented |-> FALSE,
                   propagationStopped |-> FALSE,
                   immediatePropagationStopped |-> FALSE ]
        st == dispatchEvent(keydownListeners, 1, current(event))
    IN  /\ lastOp' = "keydown"
        /\ lastEvent' = << st.event >>
        /\ isLinkHintActive' = st.isLinkHintActive
        /\ prefixInfo' = st.prefixInfo
        /\ keydownListeners' = st.keydownListeners
        /\ popoverEls' = st.popoverEls
        /\ jlModalEls' = st.jlModalEls
        /\ handleHotkeyCalls' = st.handleHotkeyCalls
        /\ hostCalls' = st.hostCalls
        /\ UNCHANGED << settingsMode, modalWrapperEls, lastNumLinkHints, lastLinkHintLetters,
                        currentView, lastLinkHints >>

\* the onChange callback of the settings dropdown
settingsOnChange(value) ==
    /\ settingsMode' = value
    /\ lastOp' = "settingsOnChange"
    /\ lastEvent' = << >>
    /\ handleHotkeyCalls' = << >>
    /\ hostCalls' = << >>
    /\ UNCHANGED << isLinkHintActive, prefixInfo, keydownListeners, popoverEls,
                    jlModalEls, modalWrapperEls, lastNumLinkHints, lastLinkHintLetters,
                    currentView, lastLinkHints >>

Next ==
    \/ \E view \in Views : handleJumpToLink(view)
    \/ \E e \in KeyboardEvents : keydown(e)
    \/ \E value \in LinkHintModes : settingsOnChange(value)

Spec == Init /\ [][Next]_vars

(***************************************************************************)
(* getLinkHintLetters on its own: called with every numLinkHints up to     *)
(* MaxNumLinkHints.                                                        *)
(***************************************************************************)
InitLetters ==
    /\ isLinkHintActive = FALSE
    /\ prefixInfo = noPrefixInfo
    /\ settingsMode = "popovers"
    /\ keydownListeners = << >>
    /\ popoverEls = 0
    /\ jlModalEls = 0
    /\ modalWrapperEls = 0
    /\ lastOp = "onload"
    /\ lastEvent = << >>
    /\ handleHotkeyCalls = << >>
    /\ hostCalls = << >>
    /\ lastNumLinkHints \in 0..MaxNumLinkHints
    /\ lastLinkHintLetters = << >>
    /\ currentView = << >>
    /\ lastLinkHints = << >>

callGetLinkHintLetters ==
    /\ lastLinkHintLetters = << >>
    /\ lastLinkHintLetters' = << linkHintLettersFor[lastNumLinkHints] >>
    /\ lastOp' = "getLinkHintLetters"
    /\ UNCHANGED << isLinkHintActive, prefixInfo, settingsMode, keydownListeners,
                    popoverEls, jlModalEls, modalWrapperEls, lastEvent,
                    handleHotkeyCalls, hostCalls, lastNumLinkHints, currentView, lastLinkHints >>

NextLetters == callGetLinkHintLetters

SpecLetters == InitLetters /\ [][NextLetters]_vars

(***************************************************************************)
(* Notions the properties are stated with.                                 *)
(***************************************************************************)
\* the uppercase letter of a lowercase one, by position in the two alphabets
LowerToUpper == {<< lowerCaseLetters[i], alphabet[i] >> : i \in 1..Len(alphabet)}

\* the key with each lowercase letter replaced by its uppercase letter
UpperCased(key) ==
    [i \in 1..Len(key) |->
        IF \E pair \in LowerToUpper : pair[1] = key[i]
        THEN (CHOOSE pair \in LowerToUpper : pair[1] = key[i])[2]
        ELSE key[i]]

\* the capacity of the allocator: 26 prefix letters with 26 letters under each
Capacity == Len(alphabet) * Len(alphabet)

\* a session is armed and no prefix key has been consumed
Armed == isLinkHintActive /\ prefixInfo = noPrefixInfo /\ Len(keydownListeners) = 1

\* a session is armed and one prefix key has been consumed
PrefixPending == isLinkHintActive /\ prefixInfo # noPrefixInfo /\ Len(keydownListeners) = 1

\* the step is a keydown event whose key is not Shift
RealKeyStep == lastOp' = "keydown" /\ lastEvent'[1].key # ShiftKey

\* the listener, the prefix state and the active flag are all cleared
TornDown == keydownListeners = << >> /\ prefixInfo = noPrefixInfo /\ ~isLinkHintActive

(***************************************************************************)
(* C1. Single active session: an activation while a session is active      *)
(* registers no listener, renders no overlay and leaves the hint map, the  *)
(* prefix state and the active flag as they were; at most one keydown      *)
(* listener is ever registered.                                            *)
(***************************************************************************)
ActivationWhileActiveIsNoOp ==
    (isLinkHintActive /\ lastOp' = "handleJumpToLink")
        => UNCHANGED << keydownListeners, popoverEls, jlModalEls, modalWrapperEls,
                        prefixInfo, isLinkHintActive >>

C1_SingleActiveSession ==
    [][ActivationWhileActiveIsNoOp /\ Len(keydownListeners') <= 1]_vars

\* an activation ran while a prefix key was pending, and the session is as it was
C1_Witness ==
    /\ lastOp = "handleJumpToLink"
    /\ PrefixPending
    /\ popoverEls > 0

(***************************************************************************)
(* C2. Full teardown: a keydown of a key other than Shift that reaches an  *)
(* active session and does not start a prefix leaves the listener          *)
(* unregistered, the prefix state cleared and the active flag false.       *)
(***************************************************************************)
C2_FullTeardown ==
    [][ ( /\ isLinkHintActive
          /\ RealKeyStep
          /\ ~(prefixInfo = noPrefixInfo /\ prefixInfo' # noPrefixInfo) )
        => TornDown' ]_vars

\* a session has just been resolved from PrefixPending to a two-letter hint
C2_Witness ==
    /\ lastOp = "keydown"
    /\ TornDown
    /\ Len(handleHotkeyCalls) = 1
    /\ Len(handleHotkeyCalls[1].link.letter) = 2

(***************************************************************************)
(* C3. Uniqueness: for numLinkHints up to the capacity, getLinkHintLetters *)
(* returns exactly numLinkHints labels, each of one or two uppercase       *)
(* letters, no two of them equal.                                          *)
(***************************************************************************)
C3_Uniqueness ==
    (lastLinkHintLetters # << >> /\ lastNumLinkHints <= Capacity)
        => LET labels == lastLinkHintLetters[1]
           IN  /\ Len(labels) = lastNumLinkHints
               /\ \A i \in 1..Len(labels) :
                      /\ Len(labels[i]) \in {1, 2}
                      /\ Range(labels[i]) \subseteq Range(alphabet)
               /\ Cardinality(Range(labels)) = Len(labels)

\* the allocator has returned for a request of exactly the capacity, for which
\* prefixCount is at its ceiling alphabet.length
C3_Witness ==
    /\ lastLinkHintLetters # << >>
    /\ lastNumLinkHints = Capacity
    /\ prefixCount(lastNumLinkHints) = Len(alphabet)
    /\ Len(lastLinkHintLetters[1]) = Capacity

(***************************************************************************)
(* C4. Prefix-freedom: for every numLinkHints, no label returned by        *)
(* getLinkHintLetters is a proper prefix of another label of the result.   *)
(***************************************************************************)
C4_PrefixFreedom ==
    lastLinkHintLetters # << >>
        => LET labels == Range(lastLinkHintLetters[1])
           IN  \A b \in labels :
                   \A k \in 0..(Len(b) - 1) : SubSeq(b, 1, k) \notin labels

\* the allocator has returned single-letter and two-letter labels together
C4_Witness ==
    /\ lastLinkHintLetters # << >>
    /\ \E a, b \in Range(lastLinkHintLetters[1]) : Len(a) = 1 /\ Len(b) = 2

(***************************************************************************)
(* C5. The result of getLinkHintLetters for numLinkHints up to the         *)
(* capacity: the first numLinkHints letters when numLinkHints <= 26;       *)
(* otherwise, with p = ceil((numLinkHints - 26) / 25), the letters after   *)
(* the first p as single-letter labels, followed by the first              *)
(* numLinkHints - (26 - p) two-letter labels, prefix by prefix over the    *)
(* first p letters and in alphabet order under each prefix.                *)
(***************************************************************************)
\* the least p with 26 + 25 * p >= n
PrefixLettersNeeded(n) ==
    CHOOSE p \in 0..Len(alphabet) :
        /\ Len(alphabet) + (Len(alphabet) - 1) * p >= n
        /\ \A q \in 0..(p - 1) : Len(alphabet) + (Len(alphabet) - 1) * q < n

SpecifiedLetters(n) ==
    IF n <= Len(alphabet)
    THEN [i \in 1..n |-> << alphabet[i] >>]
    ELSE LET p == PrefixLettersNeeded(n)
             singles == Len(alphabet) - p
         IN  [i \in 1..n |->
                 IF i <= singles
                 THEN << alphabet[p + i] >>
                 ELSE << alphabet[((i - singles - 1) \div Len(alphabet)) + 1],
                         alphabet[((i - singles - 1) % Len(alphabet)) + 1] >>]

C5_SpecifiedSequence ==
    (lastLinkHintLetters # << >> /\ lastNumLinkHints <= Capacity)
        => lastLinkHintLetters[1] = SpecifiedLetters(lastNumLinkHints)

\* the allocator has returned for a request that needs two prefix letters
C5_Witness ==
    /\ lastLinkHintLetters # << >>
    /\ lastNumLinkHints = 2 * Len(alphabet)
    /\ lastLinkHintLetters[1][lastNumLinkHints] = << "B", "B" >>

(***************************************************************************)
(* C6. Exact match from Armed: a keydown of a key other than Shift whose   *)
(* uppercased value is a label of the hint map resolves the session on     *)
(* that keystroke: handleHotkey is called exactly once, with the hint      *)
(* stored under that label, no prefix is recorded and the session is torn  *)
(* down.                                                                   *)
(***************************************************************************)
C6_ExactMatchResolves ==
    [][ ( /\ Armed
          /\ RealKeyStep
          /\ UpperCased(lastEvent'[1].key) \in DOMAIN keydownListeners[1].linkHintMap )
        => LET hint == keydownListeners[1].linkHintMap[UpperCased(lastEvent'[1].key)]
           IN  /\ Len(handleHotkeyCalls') = 1
               /\ handleHotkeyCalls'[1].link = hint
               /\ Len(hostCalls') = 1
               /\ hostCalls'[1].linkText = hint.linkText
               /\ hostCalls'[1].fn =
                      (IF hint.type = "internal" THEN "openLinkText" ELSE "openExternal")
               /\ TornDown'
               /\ popoverEls' = 0
               /\ jlModalEls' = 0 ]_vars

\* the lowercase key b has just opened the hint labelled B
C6_Witness ==
    /\ lastOp = "keydown"
    /\ lastEvent[1].key = << "b" >>
    /\ Len(handleHotkeyCalls) = 1
    /\ handleHotkeyCalls[1].link.letter = << "B" >>
    /\ TornDown

(***************************************************************************)
(* C7. Prefix transition from Armed: a keydown of a key other than Shift   *)
(* that is no label but the first character of a label of more than one    *)
(* character records that key and the Shift state of the keystroke as the  *)
(* pending prefix; the event's default action is suppressed, handleHotkey  *)
(* is not called, and the listener, the overlays and the active flag stay. *)
(***************************************************************************)
C7_PrefixTransition ==
    [][ ( /\ Armed
          /\ RealKeyStep
          /\ UpperCased(lastEvent'[1].key) \notin DOMAIN keydownListeners[1].linkHintMap
          /\ \E label \in DOMAIN keydownListeners[1].linkHintMap :
                 Len(label) > 1 /\ << label[1] >> = UpperCased(lastEvent'[1].key) )
        => /\ prefixInfo' = << [ prefix   |-> UpperCased(lastEvent'[1].key),
                                 shiftKey |-> lastEvent'[1].shiftKey ] >>
           /\ lastEvent'[1].defaultPrevented
           /\ handleHotkeyCalls' = << >>
           /\ hostCalls' = << >>
           /\ UNCHANGED << keydownListeners, popoverEls, jlModalEls, modalWrapperEls,
                           isLinkHintActive >> ]_vars

\* the key a, pressed with Shift, is pending as the prefix A under the overlays
C7_Witness ==
    /\ lastOp = "keydown"
    /\ lastEvent[1].key = << "a" >>
    /\ prefixInfo = << [prefix |-> << "A" >>, shiftKey |-> TRUE] >>
    /\ isLinkHintActive
    /\ Len(keydownListeners) = 1
    /\ popoverEls > 0

(***************************************************************************)
(* C8. Prefix-session correctness: from PrefixPending with prefix P, the   *)
(* next keydown of a key K other than Shift resolves the session:          *)
(* handleHotkey is called with the hint labelled P + uppercase(K) if the   *)
(* hint map has that label, and is not called otherwise; the session is    *)
(* torn down either way.                                                   *)
(***************************************************************************)
C8_PrefixSessionResolves ==
    [][ (PrefixPending /\ RealKeyStep)
        => LET linkHintMap == keydownListeners[1].linkHintMap
               label == prefixInfo[1].prefix \o UpperCased(lastEvent'[1].key)
           IN  /\ IF label \in DOMAIN linkHintMap
                  THEN /\ Len(handleHotkeyCalls') = 1
                       /\ handleHotkeyCalls'[1].link = linkHintMap[label]
                  ELSE /\ handleHotkeyCalls' = << >>
                       /\ hostCalls' = << >>
               /\ TornDown'
               /\ popoverEls' = 0
               /\ jlModalEls' = 0 ]_vars

\* B then A has just opened the hint labelled BA
C8_Witness ==
    /\ lastOp = "keydown"
    /\ lastEvent[1].key \in {<< "A" >>, << "a" >>}
    /\ Len(handleHotkeyCalls) = 1
    /\ handleHotkeyCalls[1].link.letter = << "B", "A" >>
    /\ TornDown

(***************************************************************************)
(* C9. Shift on the prefix path, as claimed: when a session resolves to a  *)
(* hint through PrefixPending, the newLeaf argument of handleHotkey equals *)
(* the Shift state recorded with the prefix, whatever the Shift state of   *)
(* the second keystroke.                                                   *)
(***************************************************************************)
C9_NewLeafIsRecordedShift ==
    [][ (PrefixPending /\ RealKeyStep /\ handleHotkeyCalls' # << >>)
        => handleHotkeyCalls'[1].newLeaf = prefixInfo[1].shiftKey ]_vars

(***************************************************************************)
(* C9, amended. When a session resolves to a hint through PrefixPending,   *)
(* the newLeaf argument of handleHotkey is true exactly when Shift was     *)
(* recorded with the prefix or Shift is held on the second keystroke.      *)
(***************************************************************************)
C9_NewLeafIsEitherShift ==
    [][ (PrefixPending /\ RealKeyStep /\ handleHotkeyCalls' # << >>)
        => handleHotkeyCalls'[1].newLeaf
               = (prefixInfo[1].shiftKey \/ lastEvent'[1].shiftKey) ]_vars

\* a two-letter hint has just been opened in a new pane by a second keystroke
\* without Shift
C9_Witness ==
    /\ lastOp = "keydown"
    /\ ~lastEvent[1].shiftKey
    /\ Len(handleHotkeyCalls) = 1
    /\ Len(handleHotkeyCalls[1].link.letter) = 2
    /\ handleHotkeyCalls[1].newLeaf

(***************************************************************************)
(* C10. Shift alone is inert: a keydown of Shift reaching an active        *)
(* session, with or without a pending prefix, leaves the session, the      *)
(* prefix state, the listener and the overlays as they were, calls no      *)
(* handleHotkey and does not suppress the event; and every keydown that    *)
(* opens a hint while Shift is held on it passes newLeaf = TRUE.           *)
(***************************************************************************)
ShiftStepIsInert ==
    (isLinkHintActive /\ lastOp' = "keydown" /\ lastEvent'[1].key = ShiftKey)
        => /\ UNCHANGED << isLinkHintActive, prefixInfo, keydownListeners,
                           popoverEls, jlModalEls, modalWrapperEls >>
           /\ handleHotkeyCalls' = << >>
           /\ hostCalls' = << >>
           /\ ~lastEvent'[1].defaultPrevented
           /\ ~lastEvent'[1].propagationStopped
           /\ ~lastEvent'[1].immediatePropagationStopped

ShiftHeldOpensNewLeaf ==
    (lastOp' = "keydown" /\ handleHotkeyCalls' # << >> /\ lastEvent'[1].shiftKey)
        => \A i \in 1..Len(handleHotkeyCalls') : handleHotkeyCalls'[i].newLeaf

C10_ShiftAloneIsInert == [][ShiftStepIsInert /\ ShiftHeldOpensNewLeaf]_vars

\* a Shift keydown has just passed through a session whose prefix is pending
C10_Witness ==
    /\ lastOp = "keydown"
    /\ lastEvent[1].key = ShiftKey
    /\ ~lastEvent[1].defaultPrevented
    /\ PrefixPending
    /\ popoverEls + jlModalEls > 0


(***************************************************************************)
(* C11. No match cancels cleanly: in Armed a non-Shift key that is neither *)
(* a label nor the first character of a longer label has its default       *)
(* suppressed, reaches no dispatcher and tears the session down; and every *)
(* non-Shift keydown that arrives while a session is active has its        *)
(* default suppressed.                                                     *)
(***************************************************************************)
\* the key of the step, uppercased, matches nothing in the armed listener's map
NoMatchStep ==
    LET linkHintMap == keydownListeners[1].linkHintMap
        eventKey == UpperCased(lastEvent'[1].key)
    IN  /\ Armed
        /\ RealKeyStep
        /\ eventKey \notin DOMAIN linkHintMap
        /\ ~ \E label \in DOMAIN linkHintMap : Len(label) > 1 /\ eventKey = << label[1] >>

\* C11: a non-matching key cancels the session without a dispatch, and no
\* non-Shift key of an active session keeps its default action
C11_NoMatchCancelsCleanly ==
    [][ /\ (isLinkHintActive /\ RealKeyStep) => lastEvent'[1].defaultPrevented
        /\ NoMatchStep =>
               /\ lastEvent'[1].defaultPrevented
               /\ handleHotkeyCalls' = << >>
               /\ hostCalls' = << >>
               /\ TornDown'
               /\ popoverEls' = 0
               /\ jlModalEls' = 0 ]_vars

\* a session over some links was cancelled by the key 1
C11_Witness ==
    /\ lastOp = "keydown"
    /\ lastEvent[1].key = << "1" >>
    /\ lastEvent[1].defaultPrevented
    /\ lastNumLinkHints > 0
    /\ handleHotkeyCalls = << >>
    /\ TornDown

(***************************************************************************)
(* C12. Overlay removal at teardown: once a session has resolved or been   *)
(* cancelled, no element that overlay rendering inserted into the document *)
(* is left in it, in popovers mode and in modal mode, after any number of  *)
(* sessions.                                                               *)
(***************************************************************************)
\* C12: while no session is active the document holds no popover, no modal
\* and no wrapper element of a modal
C12_NoOverlayLeftover ==
    ~isLinkHintActive => (popoverEls = 0 /\ jlModalEls = 0 /\ modalWrapperEls = 0)

(***************************************************************************)
(* C13. Zero links: an activation on a view in which the locator finds no  *)
(* link registers no listener, renders no overlay and leaves               *)
(* isLinkHintActive false, so that a later activation is not blocked.      *)
(***************************************************************************)
\* the step is an activation, outside a session, whose locator returned no hint
ZeroLinksStep ==
    /\ lastOp' = "handleJumpToLink"
    /\ ~isLinkHintActive
    /\ currentView'[1].mode \in {"preview", "source"}
    /\ lastLinkHints' = << << >> >>

\* C13: an activation that finds no link arms nothing
C13_ZeroLinksArmNothing ==
    [][ ZeroLinksStep =>
            /\ keydownListeners' = << >>
            /\ UNCHANGED << popoverEls, jlModalEls, modalWrapperEls, prefixInfo >>
            /\ ~isLinkHintActive' ]_vars

\* the command ran on an editor whose text holds no link, and armed nothing
C13_Witness ==
    /\ lastOp = "handleJumpToLink"
    /\ currentView # << >>
    /\ currentView[1].mode = "source"
    /\ lastLinkHints = << << >> >>
    /\ lastNumLinkHints = 0
    /\ keydownListeners = << >>
    /\ ~isLinkHintActive

(***************************************************************************)
(* Sessions over more links than the allocator has labels, and             *)
(* getLinkHintLetters called with every numLinkHints above the capacity.   *)
(***************************************************************************)
\* the keys offered to such a session: those of Keys, and the first letters
\* of the property key "undefined"
OverCapacityKeys == Keys \cup { << "u" >>, << "n" >> }

InitOverCapacity ==
    /\ isLinkHintActive = FALSE
    /\ prefixInfo = noPrefixInfo
    /\ settingsMode = "popovers"
    /\ keydownListeners = << >>
    /\ popoverEls = 0
    /\ jlModalEls = 0
    /\ modalWrapperEls = 0
    /\ lastOp = "onload"
    /\ lastEvent = << >>
    /\ handleHotkeyCalls = << >>
    /\ hostCalls = << >>
    /\ lastNumLinkHints \in (Capacity + 1)..MaxNumLinkHints
    /\ lastLinkHintLetters = << >>
    /\ currentView = << >>
    /\ lastLinkHints = << >>

NextOverCapacity ==
    \/ callGetLinkHintLetters
    \/ \E view \in OverCapacityViews : handleJumpToLink(view)
    \/ \E e \in [key : OverCapacityKeys, shiftKey : BOOLEAN] : keydown(e)

SpecOverCapacity == InitOverCapacity /\ [][NextOverCapacity]_vars

(***************************************************************************)
(* C14. Over-capacity: for every numLinkHints above 676 getLinkHintLetters *)
(* returns exactly 676 distinct labels; in a session over more than 676    *)
(* links no keystroke makes the dispatcher receive a hint of rank 676 or   *)
(* more, and every hint of a rank below 676 stays selectable by its label. *)
(***************************************************************************)
\* above the capacity the allocator returns as many distinct labels as the capacity
CapacityLabels ==
    (lastLinkHintLetters # << >> /\ lastNumLinkHints > Capacity)
        => /\ Len(lastLinkHintLetters[1]) = Capacity
           /\ Cardinality(Range(lastLinkHintLetters[1])) = Capacity

\* a session is armed on more links than the capacity
OverCapacitySession ==
    /\ isLinkHintActive
    /\ Len(keydownListeners) = 1
    /\ lastLinkHints # << >>
    /\ Len(lastLinkHints[1]) > Capacity

\* the dispatcher only receives hints of a rank below the capacity
NoDispatchBeyondCapacity ==
    OverCapacitySession =>
        \A k \in 1..Len(handleHotkeyCalls') :
            /\ \E i \in 1..Capacity : lastLinkHints[1][i] = handleHotkeyCalls'[k].link
            /\ \A i \in (Capacity + 1)..Len(lastLinkHints[1]) :
                   lastLinkHints[1][i] # handleHotkeyCalls'[k].link

\* the armed listener holds each hint of a rank below the capacity under the
\* label of its rank
RanksBelowCapacityStored ==
    OverCapacitySession =>
        \A i \in 1..Capacity :
            LET label == lastLinkHintLetters[1][i]
            IN  /\ label \in DOMAIN keydownListeners[1].linkHintMap
                /\ keydownListeners[1].linkHintMap[label] = lastLinkHints[1][i]

\* a letter key arms its prefix, and the second letter key dispatches the hint
\* whose label the two keys spell
LabelKeysSelect ==
    (OverCapacitySession /\ RealKeyStep /\ Len(lastEvent'[1].key) = 1
         /\ UpperCased(lastEvent'[1].key)[1] \in Range(alphabet))
        => IF prefixInfo = noPrefixInfo
           THEN /\ prefixInfo' # noPrefixInfo
                /\ prefixInfo'[1].prefix = UpperCased(lastEvent'[1].key)
                /\ handleHotkeyCalls' = << >>
                /\ isLinkHintActive'
           ELSE /\ Len(handleHotkeyCalls') = 1
                /\ handleHotkeyCalls'[1].link.letter
                       = prefixInfo[1].prefix \o UpperCased(lastEvent'[1].key)
                /\ TornDown'

\* C14: 676 distinct labels above the capacity; no dispatch of a hint of rank
\* 676 or more; the hints below rank 676 are stored and selected by their labels
C14_OverCapacity ==
    /\ [](CapacityLabels /\ RanksBelowCapacityStored)
    /\ [][NoDispatchBeyondCapacity /\ LabelKeysSelect]_vars

\* a session over more than 676 links dispatched the hint of rank 1 on A, B
C14_Witness ==
    /\ lastOp = "keydown"
    /\ lastLinkHints # << >>
    /\ Len(lastLinkHints[1]) > Capacity
    /\ Len(lastLinkHintLetters[1]) = Capacity
    /\ Len(handleHotkeyCalls) = 1
    /\ handleHotkeyCalls[1].link = lastLinkHints[1][2]
    /\ handleHotkeyCalls[1].link.letter = << "A", "B" >>
    /\ TornDown

(***************************************************************************)
(* C15. Label assignment by rank: the sequence a locator returns is sorted *)
(* ascending by its ordering key, (top, left) for the rendered view and    *)
(* the character index for the editor, and the hint at rank i carries      *)
(* label i of getLinkHintLetters(N), N being the number of hints.          *)
(***************************************************************************)
\* hint x does not come after hint y in the order of its locator
InOrder(x, y) ==
    IF "index" \in DOMAIN x
    THEN x.index <= y.index
    ELSE x.top < y.top \/ (x.top = y.top /\ x.left <= y.left)

\* C15: the hints of the last locator call are in ascending order of their
\* keys and labelled by rank with the labels of getLinkHintLetters(N)
C15_LabelsByRank ==
    lastLinkHints # << >>
        => LET found == lastLinkHints[1]
               letters == lastLinkHintLetters[1]
           IN  /\ lastNumLinkHints = Len(found)
               /\ \A i, j \in 1..Len(found) : i < j => InOrder(found[i], found[j])
               /\ \A i \in 1..Len(found) :
                      IF i <= Len(letters)
                      THEN found[i].letter = letters[i]
                      ELSE found[i].letter = undefined
               /\ Len(found) <= Capacity => Len(letters) = Len(found)

\* an editor text whose links are not met in their final order, the first
\* two at the same index: the locator returned more than 26 hints, two-letter
\* labels included
C15_Witness ==
    /\ lastLinkHints # << >>
    /\ currentView[1].mode = "source"
    /\ Len(lastLinkHints[1]) > Len(alphabet)
    /\ lastLinkHints[1][1].type = "internal"
    /\ lastLinkHints[1][2].type = "external"
    /\ lastLinkHints[1][1].index = lastLinkHints[1][2].index
    /\ Len(lastLinkHints[1][Len(lastLinkHints[1])].letter) = 2

(***************************************************************************)
(* getSourceLinkHints on its own: applied to every text of up to           *)
(* MaxSegments segments, each of any kind and followed by a space, a       *)
(* newline, a tab or nothing, and to the text                              *)
(*   See [[Home]] and [ext](http://x.com) and visit https://y.com now      *)
(***************************************************************************)
SegmentSeps == { << space >>, << newline >>, << tab >>, << >> }

SourceTexts(n) ==
    { [i \in 1..n |-> segment(i, f[i][1], f[i][2])] :
          f \in [1..n -> Range(segmentKinds) \X SegmentSeps] }

word(name, sep) == [kind |-> "word", name |-> name, label |-> << >>, sep |-> sep]

exampleText ==
    << word(<< "S", "e", "e" >>, << space >>),
       [ kind |-> "wiki", name |-> << "H", "o", "m", "e" >>, label |-> << >>,
         sep |-> << space >> ],
       word(<< "a", "n", "d" >>, << space >>),
       [ kind |-> "markdown", name |-> httpScheme \o << "x", ".", "c", "o", "m" >>,
         label |-> << "e", "x", "t" >>, sep |-> << space >> ],
       word(<< "a", "n", "d" >>, << space >>),
       word(<< "v", "i", "s", "i", "t" >>, << space >>),
       [ kind |-> "url",
         name |-> << "h", "t", "t", "p", "s", ":", "/", "/", "y", ".", "c", "o", "m" >>,
         label |-> << >>, sep |-> << space >> ],
       word(<< "n", "o", "w" >>, << >>) >>

SourceTextViews ==
    { [mode |-> "source", parts |-> parts] :
          parts \in UNION {SourceTexts(n) : n \in 0..MaxSegments} \cup {exampleText} }

InitSource ==
    /\ isLinkHintActive = FALSE
    /\ prefixInfo = noPrefixInfo
    /\ settingsMode = "popovers"
    /\ keydownListeners = << >>
    /\ popoverEls = 0
    /\ jlModalEls = 0
    /\ modalWrapperEls = 0
    /\ lastOp = "onload"
    /\ lastEvent = << >>
    /\ handleHotkeyCalls = << >>
    /\ hostCalls = << >>
    /\ lastNumLinkHints = 0
    /\ lastLinkHintLetters = << >>
    /\ currentView \in {<< view >> : view \in SourceTextViews}
    /\ lastLinkHints = << >>

callGetSourceLinkHints ==
    /\ lastLinkHints = << >>
    /\ lastLinkHints' = << linkHintsOf(currentView[1]) >>
    /\ lastNumLinkHints' = Len(lastLinkHints'[1])
    /\ lastLinkHintLetters' = << linkHintLettersFor[lastNumLinkHints'] >>
    /\ lastOp' = "getSourceLinkHints"
    /\ UNCHANGED << isLinkHintActive, prefixInfo, settingsMode, keydownListeners,
                    popoverEls, jlModalEls, modalWrapperEls, lastEvent,
                    handleHotkeyCalls, hostCalls, currentView >>

NextSource == callGetSourceLinkHints

SpecSource == InitSource /\ [][NextSource]_vars

(***************************************************************************)
(* C16. Raw-text extraction: every [[Target]] and [[Target|Display]]       *)
(* yields one internal hint whose linkText is Target, every                *)
(* [Title](Target) one external hint whose linkText is Target, every bare  *)
(* http:// or https:// URL delimited by whitespace or line boundaries one  *)
(* external hint; the hints are ordered by the index of the match start;   *)
(* the example text yields Internal Home, External http://x.com and        *)
(* External https://y.com, in that order and nothing else.                 *)
(***************************************************************************)
\* the character index at which part i of the text starts
PartIndex(parts, i) == Len(sourceText(parts, 1, i - 1))

\* the hints of one type and link text
HintsWith(found, type, linkText) ==
    {k \in 1..Len(found) : found[k].type = type /\ found[k].linkText = linkText}

\* the external hints whose match starts at an index
ExternalHintsAt(found, index) ==
    {k \in 1..Len(found) : found[k].type = "external" /\ found[k].index = index}

\* part i is set off on both sides by one of the delimiters or by the
\* boundaries of the text
Delimited(parts, i, delimiters) ==
    /\ i = 1 \/ (parts[i - 1].sep # << >> /\ parts[i - 1].sep[1] \in delimiters)
    /\ IF parts[i].sep = << >>
       THEN i = Len(parts)
       ELSE parts[i].sep[1] \in delimiters

\* the links written with brackets yield their hints, and the hints are in
\* the order of their indexes
BracketLinksFound(parts, found) ==
    /\ \A i \in 1..Len(parts) :
           /\ parts[i].kind \in {"wiki", "wikiAlias"}
                  => Cardinality(HintsWith(found, "internal", parts[i].name)) = 1
           /\ parts[i].kind = "markdown"
                  => Cardinality(HintsWith(found, "external", parts[i].name)) = 1
    /\ \A k, l \in 1..Len(found) : k < l => found[k].index <= found[l].index

\* the hints of the example text
ExampleHints(found) ==
    /\ Len(found) = 3
    /\ found[1].type = "internal"
    /\ found[1].linkText = << "H", "o", "m", "e" >>
    /\ found[2].type = "external"
    /\ found[2].linkText = httpScheme \o << "x", ".", "c", "o", "m" >>
    /\ found[3].type = "external"
    /\ found[3].linkText
           = << "h", "t", "t", "p", "s", ":", "/", "/", "y", ".", "c", "o", "m" >>

\* C16 as stated: a URL set off by whitespace, a tab included, or by the
\* boundaries of the text yields one external hint
C16_WhitespaceDelimitedUrls ==
    (lastLinkHints # << >> /\ lastOp = "getSourceLinkHints")
        => LET parts == currentView[1].parts
               found == lastLinkHints[1]
           IN  /\ BracketLinksFound(parts, found)
               /\ parts = exampleText => ExampleHints(found)
               /\ \A i \in 1..Len(parts) :
                      (parts[i].kind = "url" /\ Delimited(parts, i, {space, newline, tab}))
                          => Cardinality(ExternalHintsAt(found, PartIndex(parts, i))) = 1

\* C16: the bracket links yield their hints, in index order; a URL set off by
\* spaces, newlines or the boundaries of the text yields one external hint
\* whose linkText is the URL; the example text yields its three hints
C16_SpaceDelimitedUrls ==
    (lastLinkHints # << >> /\ lastOp = "getSourceLinkHints")
        => LET parts == currentView[1].parts
               found == lastLinkHints[1]
           IN  /\ BracketLinksFound(parts, found)
               /\ parts = exampleText => ExampleHints(found)
               /\ \A i \in 1..Len(parts) :
                      (parts[i].kind = "url" /\ Delimited(parts, i, {space, newline}))
                          => /\ Cardinality(ExternalHintsAt(found, PartIndex(parts, i))) = 1
                             /\ Cardinality(HintsWith(found, "external", parts[i].name)) = 1

\* the locator has run on the example text and returned three hints, the
\* first two with the same index
C16_Witness ==
    /\ lastOp = "getSourceLinkHints"
    /\ currentView[1].parts = exampleText
    /\ Len(lastLinkHints[1]) = 3
    /\ lastLinkHints[1][1].index = 4
    /\ lastLinkHints[1][2].index = 4
    /\ lastLinkHints[1][3].type = "external"

(***************************************************************************)
(* Sessions that are offered every letter key, in both cases, on views of  *)
(* up to 26 * 26 links.                                                    *)
(***************************************************************************)
LetterKeys ==
    {<< alphabet[i] >> : i \in 1..Len(alphabet)}
        \cup {<< lowerCaseLetters[i] >> : i \in 1..Len(alphabet)}

\* the views of Views that hold a link, and the view of 26 * 26 anchors
SelectViews ==
    {v \in Views : v.mode = "source" \/ (v.mode = "preview" /\ v.embeds = 1)}
        \cup {CapacityView}

InitSelect == Init /\ settingsMode = "popovers"

NextSelect ==
    \/ \E view \in SelectViews : handleJumpToLink(view)
    \/ \E e \in [key : LetterKeys \cup {ShiftKey}, shiftKey : {FALSE}] : keydown(e)

SpecSelect == InitSelect /\ [][NextSelect]_vars

(***************************************************************************)
(* C17. End-to-end selectability: in a session armed over N hints,         *)
(* 1 <= N <= 676, pressing from Armed the key or the two keys that spell   *)
(* the label of a hint, in either letter case and with no other non-Shift  *)
(* key in between, invokes the dispatcher exactly once, with that hint,    *)
(* and ends the session.                                                   *)
(***************************************************************************)
\* a session is armed over the hints of the last locator call, no more of
\* them than the allocator has labels
SelectSession ==
    /\ isLinkHintActive
    /\ Len(keydownListeners) = 1
    /\ lastLinkHints # << >>
    /\ Len(lastLinkHints[1]) \in 1..Capacity

\* every hint of the session has a label of one or two letters and is stored
\* under it, and the first letter of a two-letter label is no label itself
EveryHintStored ==
    SelectSession =>
        \A i \in 1..Len(lastLinkHints[1]) :
            LET h == lastLinkHints[1][i]
                linkHintMap == keydownListeners[1].linkHintMap
            IN  /\ Len(h.letter) \in {1, 2}
                /\ \A c \in 1..Len(h.letter) : << h.letter[c] >> \in LetterKeys
                /\ h.letter \in DOMAIN linkHintMap
                /\ linkHintMap[h.letter] = h
                /\ Len(h.letter) = 2 => << h.letter[1] >> \notin DOMAIN linkHintMap

\* the dispatcher was invoked exactly once, with hint h, and the session ended
DispatchedOnce(h) ==
    /\ Len(handleHotkeyCalls') = 1
    /\ handleHotkeyCalls'[1].link = h
    /\ Len(hostCalls') = 1
    /\ hostCalls'[1].linkText = h.linkText
    /\ TornDown'

\* the keys that spell the label of a hint select it: its single key
\* dispatches it, the first key of two arms the prefix, the second dispatches
LabelKeysDispatch ==
    (SelectSession /\ RealKeyStep) =>
        LET eventKey == UpperCased(lastEvent'[1].key)
        IN  \A i \in 1..Len(lastLinkHints[1]) :
                LET h == lastLinkHints[1][i]
                IN  /\ (prefixInfo = noPrefixInfo /\ h.letter = eventKey)
                        => DispatchedOnce(h)
                    /\ (prefixInfo = noPrefixInfo /\ Len(h.letter) = 2
                            /\ << h.letter[1] >> = eventKey)
                        => /\ prefixInfo' # noPrefixInfo
                           /\ prefixInfo'[1].prefix = eventKey
                           /\ handleHotkeyCalls' = << >>
                           /\ UNCHANGED << isLinkHintActive, keydownListeners >>
                    /\ (prefixInfo # noPrefixInfo
                            /\ h.letter = prefixInfo[1].prefix \o eventKey)
                        => DispatchedOnce(h)

\* a Shift key between the two keys changes nothing of the session
ShiftKeepsSession ==
    (SelectSession /\ lastOp' = "keydown" /\ lastEvent'[1].key = ShiftKey)
        => /\ UNCHANGED << isLinkHintActive, prefixInfo, keydownListeners >>
           /\ handleHotkeyCalls' = << >>

\* C17: every hint of a session over 1..676 hints is stored under its label,
\* and the keys of its label dispatch it, exactly once, and end the session
C17_EveryHintSelectable ==
    /\ []EveryHintStored
    /\ [][LabelKeysDispatch /\ ShiftKeepsSession]_vars

\* the last of 676 hints was dispatched by the keys z and z
C17_Witness ==
    /\ lastOp = "keydown"
    /\ lastEvent[1].key = << "z" >>
    /\ lastLinkHints # << >>
    /\ Len(lastLinkHints[1]) = Capacity
    /\ Len(handleHotkeyCalls) = 1
    /\ handleHotkeyCalls[1].link = lastLinkHints[1][Capacity]
    /\ handleHotkeyCalls[1].link.letter = << "Z", "Z" >>
    /\ TornDown

(***************************************************************************)
(* C18. Session state coupling: in every reachable state a keydown         *)
(* listener is registered if and only if isLinkHintActive is true, and     *)
(* prefixInfo is defined only while isLinkHintActive is true.              *)
(***************************************************************************)
C18_SessionStateCoupling ==
    /\ (keydownListeners # << >>) <=> isLinkHintActive
    /\ (prefixInfo # noPrefixInfo) => isLinkHintActive

\* a prefix is pending, without Shift, in an active session with its listener
C18_Witness ==
    /\ lastOp = "keydown"
    /\ prefixInfo = << [prefix |-> << "B" >>, shiftKey |-> FALSE] >>
    /\ isLinkHintActive
    /\ keydownListeners # << >>

(***************************************************************************)
(* C19. Bounded session length: a session ends within two keydown events   *)
(* of keys other than Shift after it is armed: the first ends it or leaves *)
(* it in PrefixPending, the next one after that ends it; the dispatcher is *)
(* invoked at most once per session, at the step that ends it.             *)
(***************************************************************************)
\* an active session is in Armed or in PrefixPending
ActiveIsArmedOrPending == isLinkHintActive => (Armed \/ PrefixPending)

\* the states a key other than Shift leads to, and the calls of its step
SessionStep ==
    /\ (Armed /\ RealKeyStep) => (TornDown' \/ PrefixPending')
    /\ (PrefixPending /\ RealKeyStep) => TornDown'
    /\ Len(handleHotkeyCalls') <= 1
    /\ handleHotkeyCalls' # << >> => (isLinkHintActive /\ RealKeyStep /\ TornDown')
    /\ isLinkHintActive' => handleHotkeyCalls' = << >>

\* C19: an active session is Armed or PrefixPending, a key other than Shift
\* ends it from PrefixPending and ends it or enters PrefixPending from Armed,
\* and the dispatcher is called at most once, at the step that ends it
C19_BoundedSessionLength ==
    []ActiveIsArmedOrPending /\ [][SessionStep]_vars

\* a session was ended by its second key, the b of the label BB, with one
\* call of the dispatcher
C19_Witness ==
    /\ lastOp = "keydown"
    /\ lastEvent[1].key = << "b" >>
    /\ TornDown
    /\ Len(handleHotkeyCalls) = 1
    /\ handleHotkeyCalls[1].link.letter = << "B", "B" >>

(***************************************************************************)
(* Calls of getLinkHintLetters for 26 links and more, and sessions over    *)
(* views of 26 links and more that are offered each of the 26 letters.     *)
(***************************************************************************)
\* the views of Views with a letter's worth of links, and the view of 26 * 26
LetterKeyViews ==
    {v \in Views : v.mode = "preview" /\ v.anchors >= Len(alphabet)}
        \cup {v \in Views : v.mode = "source" /\ v.segments >= Len(alphabet)}
        \cup {CapacityView}

\* every letter key in upper case, and the letter keys of Keys
OfferedLetterKeys == {k \in LetterKeys : toUpperCase(k) = k \/ k \in Keys}

InitLetterKeys ==
    /\ isLinkHintActive = FALSE
    /\ prefixInfo = noPrefixInfo
    /\ settingsMode = "popovers"
    /\ keydownListeners = << >>
    /\ popoverEls = 0
    /\ jlModalEls = 0
    /\ modalWrapperEls = 0
    /\ lastOp = "onload"
    /\ lastEvent = << >>
    /\ handleHotkeyCalls = << >>
    /\ hostCalls = << >>
    /\ lastNumLinkHints \in Len(alphabet)..MaxNumLinkHints
    /\ lastLinkHintLetters = << >>
    /\ currentView = << >>
    /\ lastLinkHints = << >>

NextLetterKeys ==
    \/ callGetLinkHintLetters
    \/ \E view \in LetterKeyViews : handleJumpToLink(view)
    \/ \E e \in [key : OfferedLetterKeys \cup {ShiftKey}, shiftKey : {FALSE}] : keydown(e)

SpecLetterKeys == InitLetterKeys /\ [][NextLetterKeys]_vars

(***************************************************************************)
(* C20. No dead letter keys: for every n >= 26 each of the 26 letters is a *)
(* single-letter label of getLinkHintLetters(n) or the first letter of a   *)
(* two-letter label of it, so in a session over at least 26 hints a letter *)
(* key pressed in Armed never cancels: it resolves to a hint or enters     *)
(* PrefixPending.                                                          *)
(***************************************************************************)
\* letter c is a label of its own or begins a label of two letters
IsLabelOrPrefix(c, letters) ==
    \/ \E j \in 1..Len(letters) : letters[j] = << c >>
    \/ \E j \in 1..Len(letters) : Len(letters[j]) = 2 /\ letters[j][1] = c

NoDeadLetter ==
    (lastLinkHintLetters # << >> /\ lastNumLinkHints >= Len(alphabet))
        => \A i \in 1..Len(alphabet) :
               IsLabelOrPrefix(alphabet[i], lastLinkHintLetters[1])

\* a letter key reaching an Armed session over 26 hints or more dispatches
\* a hint or leaves the session waiting for the second key
LetterKeyNeverCancels ==
    ( /\ Armed
      /\ lastLinkHints # << >>
      /\ Len(lastLinkHints[1]) >= Len(alphabet)
      /\ lastOp' = "keydown"
      /\ lastEvent'[1].key \in LetterKeys )
        => \/ Len(handleHotkeyCalls') = 1 /\ TornDown'
           \/ PrefixPending' /\ handleHotkeyCalls' = << >>

\* C20: from 26 links on no letter is left without a label or a prefix role,
\* and no letter key cancels an Armed session over 26 hints or more
C20_NoDeadLetterKeys == []NoDeadLetter /\ [][LetterKeyNeverCancels]_vars

\* the key b, the last prefix letter of 52 labels with only BA and BB under
\* it, left a session over 52 hints waiting for the second key
C20_Witness ==
    /\ lastOp = "keydown"
    /\ lastEvent[1].key = << "b" >>
    /\ PrefixPending
    /\ prefixInfo[1].prefix = << "B" >>
    /\ lastNumLinkHints = 2 * Len(alphabet)
    /\ IsLabelOrPrefix("B", lastLinkHintLetters[1])
    /\ << "B", "C" >> \notin Range(lastLinkHintLetters[1])

=============================================================================
